---- MODULE Spec2Model ----
(***************************************************************************)
(* CheckMyPaper: the papers / notifications tables with their row level    *)
(* security policies (the SQL migration), and the client handlers that     *)
(* write to them: LearnerDashboard.handleUpload, TutorDashboard.loadPapers *)
(* / handleAccept / handleReject / openAnnotationEditor,                   *)
(* AnnotationEditor.handleSubmit and Navbar.markAsRead.                    *)
(*                                                                         *)
(* A nullable SQL column is a sequence of length at most one: <<>> is NULL *)
(* and <<v>> is the value v.  Every handler is a chain of awaited requests *)
(* and is modelled one request per step; a request is atomic at the store. *)
(***************************************************************************)
EXTENDS Integers, Sequences, FiniteSets, TLC

\* ---------------------------------------------------------------- bounds
MaxNotifications == 2
MaxClock == 1

\* ------------------------------------------------------- actors and inputs
Learners == {"L1"}
Tutors == {"T1", "T2"}
Users == Learners \cup Tutors
\* the ids gen_random_uuid() hands out
PaperIds == {"P1"}
Titles == {"Algebra Quiz"}
\* the text of the marks input (type="number"), one character per element
MarksInputs == {<<>>, <<"7">>, <<".", "5">>}
\* the values of the grade select, "" is the "Select grade" option
GradeInputs == {"", "A"}
FeedbackInputs == {""}

NULL == <<>>

\* ------------------------------------------------------------- profiles
\* profiles.role
Role(u) == IF u \in Tutors THEN "tutor" ELSE "learner"

\* EXISTS (SELECT 1 FROM profiles WHERE profiles.id = auth.uid()
\*         AND profiles.role = 'tutor')
IsTutorProfile(uid) == uid \in Users /\ Role(uid) = "tutor"

\* ---------------------------------------------------------------- rows
\* a slot of the papers table that holds no row
NoPaper == [status |-> "none"]

\* the editor of a tutor when it is not mounted
NoEditor == [id |-> "none"]

\* a handler slot with no call in flight
Idle == [pc |-> "idle"]

\* the operation record before any update was sent
NoOp == [op |-> "none"]

VARIABLES
    papers,         \* papers table: PaperIds -> row or NoPaper
    notifications,  \* notifications table, in insertion order
    now,            \* the database clock, now()
    view,           \* view[t]: the papers state of tutor t's dashboard
    loading,        \* loading[t]: 1 while t awaits a loadPapers response
    editor,         \* editor[t]: the paper prop of t's AnnotationEditor
    call,           \* call[t]: the handler of t that is awaiting a request
    last,           \* the last update a handler sent to the papers table (or
                    \* a submit the editor refused), the row before it and its answer
    skew,           \* skew[u]: the clock of u's device minus the database clock
    navbar,         \* navbar[u]: the notifications state of u's Navbar
    saving,         \* saving[t]: the saving state of t's AnnotationEditor
    events,         \* events[t]: 1 while a change of the papers table has not yet
                    \* reached the subscription callback of t's dashboard
    responses,      \* responses[t]: the answers to t's loadPapers queries that
                    \* are on their way back
    uploadForm      \* uploadForm[l]: the upload modal of l's LearnerDashboard
                    \* (showUploadModal, title, answerSheet, questionPaper,
                    \* uploading) and the handleUpload it is running

vars == <<papers, notifications, now, view, loading, editor, call, last, skew, navbar,
          saving, events, responses, uploadForm>>

\* ------------------------------------------------- parseInt (ECMAScript)
Digits == {"0", "1", "2", "3", "4", "5", "6", "7", "8", "9"}

DigitValue(c) ==
    CASE c = "0" -> 0 [] c = "1" -> 1 [] c = "2" -> 2 [] c = "3" -> 3
      [] c = "4" -> 4 [] c = "5" -> 5 [] c = "6" -> 6 [] c = "7" -> 7
      [] c = "8" -> 8 [] c = "9" -> 9

RECURSIVE LeadingDigits(_)
\* the longest prefix of s made of decimal digits
LeadingDigits(s) ==
    IF s = <<>> \/ Head(s) \notin Digits THEN <<>>
    ELSE <<Head(s)>> \o LeadingDigits(Tail(s))

RECURSIVE DigitsValue(_, _)
DigitsValue(s, acc) ==
    IF s = <<>> THEN acc ELSE DigitsValue(Tail(s), 10 * acc + DigitValue(Head(s)))

\* parseInt(marks) as it reaches the marks column: the integer read from an
\* optional sign and the leading digits; NaN when there is no digit, which
\* JSON.stringify writes as null.
parseInt(s) ==
    LET neg  == s /= <<>> /\ Head(s) = "-"
        body == IF s /= <<>> /\ Head(s) \in {"-", "+"} THEN Tail(s) ELSE s
        ds   == LeadingDigits(body)
    IN  IF ds = <<>> THEN NULL
        ELSE <<(IF neg THEN -1 ELSE 1) * DigitsValue(ds, 0)>>

\* ------------------------------------------------- row level security
\* "Tutors can view all pending papers" / "Learners can view own papers"
SelectUsing(uid, row) == IsTutorProfile(uid) \/ row.learner_id = uid

\* "Learners can update own papers"
LearnersUpdateUsing(uid, row) == row.learner_id = uid
LearnersUpdateCheck(uid, row) == row.learner_id = uid

\* the USING clause without the assignment conditions: every tutor may update
\* every paper
TutorsUpdateUsing_AnyTutor(uid, row) ==
    \/ row.tutor_id = <<uid>>
    \/ IsTutorProfile(uid)

\* "Tutors can update assigned papers", USING
TutorsUpdateUsing(uid, row) ==
    \/ row.tutor_id = <<uid>>
    \/ (row.tutor_id = NULL /\ row.status = "pending" /\ IsTutorProfile(uid))

\* the WITH CHECK clause without the comparison with auth.uid(): a tutor may
\* write any tutor_id
TutorsUpdateCheck_AnyTutor(uid, row) == IsTutorProfile(uid)

\* "Tutors can update assigned papers", WITH CHECK
TutorsUpdateCheck(uid, row) ==
    \/ row.tutor_id = <<uid>>
    \/ (row.tutor_id = <<uid>> /\ IsTutorProfile(uid))

\* permissive policies of one command are OR-ed
UpdateUsing(uid, row) == LearnersUpdateUsing(uid, row) \/ TutorsUpdateUsing(uid, row)
UpdateCheck(uid, row) == LearnersUpdateCheck(uid, row) \/ TutorsUpdateCheck(uid, row)

\* "Learners can insert own papers"
InsertCheck(uid, row) == row.learner_id = uid

\* ------------------------------------------------------ store requests
\* the update as a replacement of the row: a column the patch does not name
\* is reset
ApplyPatch_Replace(row, patch) ==
    [f \in DOMAIN row |-> IF f \in DOMAIN patch THEN patch[f]
                          ELSE IF f \in {"id", "status"} THEN row[f] ELSE NULL]

\* UPDATE ... SET: the columns the patch names get its values
ApplyPatch(row, patch) ==
    [f \in DOMAIN row |-> IF f \in DOMAIN patch THEN patch[f] ELSE row[f]]

\* supabase.from('papers').update(patch).eq('id', id) sent by uid.
\* A row the policies hide is not updated and no error is returned; a new
\* row that fails WITH CHECK is an error; up = FALSE is a request the store
\* does not serve.
UpdatePaper(uid, id, patch, up) ==
    LET row == papers[id] IN
    IF ~up THEN [error |-> TRUE, rows |-> 0, row |-> row]
    ELSE IF row = NoPaper \/ ~SelectUsing(uid, row) \/ ~UpdateUsing(uid, row)
    THEN [error |-> FALSE, rows |-> 0, row |-> row]
    ELSE IF ~UpdateCheck(uid, ApplyPatch(row, patch))
    THEN [error |-> TRUE, rows |-> 0, row |-> row]
    ELSE [error |-> FALSE, rows |-> 1, row |-> ApplyPatch(row, patch)]

\* .select('*').or(`tutor_id.eq.${profile.id},status.eq.pending`)
TutorQuery(t) ==
    [id \in PaperIds |->
        IF /\ papers[id] /= NoPaper
           /\ SelectUsing(t, papers[id])
           /\ (papers[id].tutor_id = <<t>> \/ papers[id].status = "pending")
        THEN papers[id] ELSE NoPaper]

\* LearnerDashboard after mount: the modal is closed, the form is empty and no
\* handleUpload is running (pc); ptitle, pquestion and timestamp are the
\* values the running handleUpload has captured
NoUpload ==
    [show |-> FALSE, title |-> "", answerSheet |-> FALSE, questionPaper |-> FALSE,
     uploading |-> FALSE, alert |-> FALSE,
     pc |-> "idle", ptitle |-> "", pquestion |-> FALSE, timestamp |-> 0]

\* ------------------------------------------------------------------ Init
Init ==
    /\ papers = [id \in PaperIds |-> NoPaper]
    /\ notifications = <<>>
    /\ now = 0
    /\ view = [t \in Tutors |-> [id \in PaperIds |-> NoPaper]]
    /\ loading = [t \in Tutors |-> 1]
    /\ editor = [t \in Tutors |-> NoEditor]
    /\ call = [t \in Tutors |-> Idle]
    /\ last = NoOp
    /\ skew = [u \in Users |-> 0]
    /\ navbar = [u \in Users |-> <<>>]
    /\ saving = [t \in Tutors |-> FALSE]
    /\ events = [t \in Tutors |-> 0]
    /\ responses = [t \in Tutors |-> {}]
    /\ uploadForm = [l \in Learners |-> NoUpload]

\* the database clock advances
Tick ==
    /\ now < MaxClock
    /\ now' = now + 1
    /\ UNCHANGED <<uploadForm, events, responses, saving, skew, navbar, papers, notifications, view, loading, editor, call, last>>

\* ---------------------------------------------------------------- helpers
\* Date.now() / new Date() on the device of user u
DeviceClock(u) == now + skew[u]

\* the fields of the `paper` argument that the handlers read
PaperRef(row) == [id |-> row.id, learner_id |-> row.learner_id, title |-> row.title]

\* handlers that have sent their update and still have to notify
InFlight == Cardinality({t \in Tutors : call[t] /= Idle})

\* room in the notifications table for one more handler
Room == Len(notifications) + InFlight < MaxNotifications

\* postgres_changes on the papers table: a step that changes the table sends
\* a change event to every tutor's dashboard
RaiseEvents == IF papers' /= papers THEN [t \in Tutors |-> 1] ELSE events

\* loadPapers() is called and not awaited
IssueLoad(t) == [loading EXCEPT ![t] = 1]

\* gen_random_uuid(): an id no row has
FreeIds == {id \in PaperIds : papers[id] = NoPaper}

\* the insert sent twice
InsertNotification_Twice(paper, message, ok) ==
    LET row == [user_id |-> paper.learner_id, paper_id |-> paper.id,
                message |-> message, is_read |-> FALSE, created_at |-> now]
    IN  IF ok THEN Append(Append(notifications, row), row) ELSE notifications

\* supabase.from('notifications').insert({user_id, paper_id, message});
\* "Users can insert notifications" WITH CHECK (true); the result of the
\* insert is not looked at, ok = FALSE is an insert the store does not serve
InsertNotification(paper, message, ok) ==
    IF ok
    THEN Append(notifications,
                [user_id |-> paper.learner_id, paper_id |-> paper.id,
                 message |-> message, is_read |-> FALSE, created_at |-> now])
    ELSE notifications

\* --------------------------------------------------- LearnerDashboard
\* handleUpload whose insert also names marks: 0
handleUpload_Marked(l, title, hasQuestion, failAt) ==
    /\ FreeIds /= {}
    /\ failAt \in {"none", "answer", "insert"} \cup (IF hasQuestion THEN {"question"} ELSE {})
    /\ LET id  == CHOOSE i \in FreeIds : TRUE
           ts  == DeviceClock(l)
           row == [id |-> id, learner_id |-> l, tutor_id |-> NULL, title |-> title,
                   answer_sheet_url |-> <<l, "answer", ts>>,
                   question_paper_url |-> IF hasQuestion THEN <<<<l, "question", ts>>>> ELSE NULL,
                   checked_sheet_url |-> NULL, status |-> "pending",
                   marks |-> <<0>>, grade |-> NULL, feedback |-> NULL,
                   created_at |-> now, updated_at |-> now]
       IN  papers' = IF failAt = "none" /\ InsertCheck(l, row)
                        THEN [papers EXCEPT ![id] = row] ELSE papers
    /\ UNCHANGED <<uploadForm, responses, saving, skew, navbar, notifications, now, view, loading, editor, call, last>>
    /\ events' = RaiseEvents

\* handleUpload: upload the answer sheet, the optional question paper, then
\* insert the row; the first failing step throws and ends the handler.
handleUpload(l, title, hasQuestion, failAt) ==
    /\ FreeIds /= {}
    /\ failAt \in {"none", "answer", "insert"} \cup (IF hasQuestion THEN {"question"} ELSE {})
    /\ LET id  == CHOOSE i \in FreeIds : TRUE
           ts  == DeviceClock(l)
           ans == <<l, "answer", ts>>
           qp  == <<l, "question", ts>>
           row == [id |-> id, learner_id |-> l, tutor_id |-> NULL, title |-> title,
                   answer_sheet_url |-> ans,
                   question_paper_url |-> IF hasQuestion THEN <<qp>> ELSE NULL,
                   checked_sheet_url |-> NULL, status |-> "pending",
                   marks |-> NULL, grade |-> NULL, feedback |-> NULL,
                   created_at |-> now, updated_at |-> now]
       IN  papers' = IF failAt = "none" /\ InsertCheck(l, row)
                        THEN [papers EXCEPT ![id] = row] ELSE papers
    /\ UNCHANGED <<uploadForm, responses, saving, skew, navbar, notifications, now, view, loading, editor, call, last>>
    /\ events' = RaiseEvents

\* ----------------------------------------------------- TutorDashboard
\* the postgres_changes subscription calls loadPapers
papersChanged(t) ==
    /\ loading[t] = 0
    /\ view[t] /= TutorQuery(t)
    /\ loading' = IssueLoad(t)
    /\ UNCHANGED <<uploadForm, events, responses, saving, skew, navbar, papers, notifications, now, view, editor, call, last>>

\* loadPapers: the response arrives; if (data) setPapers(data)
loadPapers(t, ok) ==
    /\ loading[t] > 0
    /\ loading' = [loading EXCEPT ![t] = 0]
    /\ view' = IF ok THEN [view EXCEPT ![t] = TutorQuery(t)] ELSE view
    /\ UNCHANGED <<uploadForm, events, responses, saving, skew, navbar, papers, notifications, now, editor, call, last>>

\* handleAccept(paper), up to the awaited update; the Accept button is
\* rendered for the papers the dashboard shows as pending
handleAccept(t, id, up) ==
    /\ view[t][id] /= NoPaper
    /\ view[t][id].status = "pending"
    /\ call[t] = Idle
    /\ Room
    /\ LET paper == PaperRef(view[t][id])
           r == UpdatePaper(t, paper.id,
                    [tutor_id |-> <<t>>, status |-> "accepted", updated_at |-> DeviceClock(t)], up)
       IN  /\ papers' = [papers EXCEPT ![paper.id] = r.row]
           /\ last' = [op |-> "accept", actor |-> t, id |-> paper.id,
                       pre |-> papers[paper.id], error |-> r.error, rows |-> r.rows]
           /\ call' = IF r.error THEN call
                      ELSE [call EXCEPT ![t] = [pc |-> "notify", op |-> "accept", paper |-> paper,
                                               pre |-> papers[paper.id], rows |-> r.rows]]
    /\ UNCHANGED <<uploadForm, responses, saving, skew, navbar, notifications, now, view, loading, editor>>
    /\ events' = RaiseEvents

\* handleAccept whose notification insert throws into the catch block: the
\* error is reported and loadPapers() is not reached
handleAcceptNotify_Throws(t, ok) ==
    /\ call[t] /= Idle
    /\ call[t].pc = "notify"
    /\ call[t].op = "accept"
    /\ notifications' = InsertNotification(call[t].paper, <<"accepted", call[t].paper.title>>, ok)
    /\ loading' = IF ok THEN IssueLoad(t) ELSE loading
    /\ last' = IF ok THEN last
               ELSE [op |-> "accept", actor |-> t, id |-> call[t].paper.id,
                     pre |-> call[t].pre, error |-> TRUE, rows |-> call[t].rows]
    /\ call' = [call EXCEPT ![t] = Idle]
    /\ UNCHANGED <<uploadForm, events, responses, saving, skew, navbar, papers, now, view, editor>>

\* handleAccept after the update: insert the notification, loadPapers()
handleAcceptNotify(t, ok) ==
    /\ call[t] /= Idle
    /\ call[t].pc = "notify"
    /\ call[t].op = "accept"
    /\ notifications' = InsertNotification(call[t].paper, <<"accepted", call[t].paper.title>>, ok)
    /\ loading' = IssueLoad(t)
    /\ call' = [call EXCEPT ![t] = Idle]
    /\ UNCHANGED <<uploadForm, events, responses, saving, skew, navbar, papers, now, view, editor, last>>

\* handleReject(paper), up to the awaited update
handleReject(t, id, up) ==
    /\ view[t][id] /= NoPaper
    /\ view[t][id].status = "pending"
    /\ call[t] = Idle
    /\ Room
    /\ LET paper == PaperRef(view[t][id])
           r == UpdatePaper(t, paper.id, [status |-> "rejected", updated_at |-> DeviceClock(t)], up)
       IN  /\ papers' = [papers EXCEPT ![paper.id] = r.row]
           /\ last' = [op |-> "reject", actor |-> t, id |-> paper.id,
                       pre |-> papers[paper.id], error |-> r.error, rows |-> r.rows]
           /\ call' = IF r.error THEN call
                      ELSE [call EXCEPT ![t] = [pc |-> "notify", op |-> "reject", paper |-> paper,
                                               pre |-> papers[paper.id], rows |-> r.rows]]
    /\ UNCHANGED <<uploadForm, responses, saving, skew, navbar, notifications, now, view, loading, editor>>
    /\ events' = RaiseEvents

\* handleReject after the update: insert the notification, loadPapers()
handleRejectNotify(t, ok) ==
    /\ call[t] /= Idle
    /\ call[t].pc = "notify"
    /\ call[t].op = "reject"
    /\ notifications' = InsertNotification(call[t].paper, <<"rejected", call[t].paper.title>>, ok)
    /\ loading' = IssueLoad(t)
    /\ call' = [call EXCEPT ![t] = Idle]
    /\ UNCHANGED <<uploadForm, events, responses, saving, skew, navbar, papers, now, view, editor, last>>

\* openAnnotationEditor(paper): the Annotate & Check button is rendered for
\* the papers the dashboard shows as accepted by this tutor
openAnnotationEditor(t, id) ==
    /\ editor[t] = NoEditor
    /\ view[t][id] /= NoPaper
    /\ view[t][id].status = "accepted"
    /\ view[t][id].tutor_id = <<t>>
    /\ editor' = [editor EXCEPT ![t] = PaperRef(view[t][id])]
    /\ UNCHANGED <<uploadForm, events, responses, saving, skew, navbar, papers, notifications, now, view, loading, call, last>>

\* the onClose prop: hide the editor, clear selectedPaper, loadPapers()
onClose(t) ==
    /\ editor[t] /= NoEditor
    /\ editor' = [editor EXCEPT ![t] = NoEditor]
    /\ loading' = IssueLoad(t)
    /\ UNCHANGED <<uploadForm, events, responses, saving, skew, navbar, papers, notifications, now, view, call, last>>

\* --------------------------------------------------- AnnotationEditor
\* handleSubmit, the click on Submit Checked Paper (disabled while saving), up
\* to its return: the marks and grade must be filled in; setSaving(true),
\* canvas.toBlob(callback) hands the callback over and returns, and finally
\* runs setSaving(false) before the callback has started.  The model follows
\* one request chain per tutor at a time.
handleSubmit(t, marks, grade, feedback) ==
    /\ editor[t] /= NoEditor
    /\ ~saving[t]
    /\ call[t] = Idle
    /\ Room
    /\ IF marks = <<>> \/ grade = ""
       THEN /\ last' = [op |-> "validate", actor |-> t, id |-> editor[t].id,
                        pre |-> papers[editor[t].id], error |-> TRUE, rows |-> 0]
            /\ call' = call
            /\ saving' = saving
       ELSE /\ last' = last
            /\ call' = [call EXCEPT ![t] =
                          [pc |-> "upload", op |-> "finalize", paper |-> editor[t],
                           marks |-> marks, grade |-> grade, feedback |-> feedback,
                           url |-> NULL, pre |-> NoPaper, rows |-> 0]]
            /\ saving' = [saving EXCEPT ![t] = FALSE]
    /\ UNCHANGED <<uploadForm, events, responses, skew, navbar, papers, notifications, now, view, loading, editor>>

\* the toBlob callback without if (uploadError) throw uploadError: a failed
\* upload goes on to the update
handleSubmitUpload_NoThrow(t, ok) ==
    /\ call[t] /= Idle
    /\ call[t].pc = "upload"
    /\ LET paper == call[t].paper
           path  == <<paper.learner_id, "checked", paper.id, DeviceClock(t)>>
       IN  call' = [call EXCEPT ![t].pc = "update", ![t].url = IF ok THEN <<path>> ELSE NULL]
    /\ UNCHANGED <<uploadForm, events, responses, saving, skew, navbar, papers, notifications, now, view, loading, editor, last>>

\* the toBlob callback up to the awaited storage upload
handleSubmitUpload(t, ok) ==
    /\ call[t] /= Idle
    /\ call[t].pc = "upload"
    /\ LET paper == call[t].paper
           path  == <<paper.learner_id, "checked", paper.id, DeviceClock(t)>>
       IN  IF ok
           THEN call' = [call EXCEPT ![t].pc = "update", ![t].url = <<path>>]
           ELSE call' = [call EXCEPT ![t] = Idle]
    /\ UNCHANGED <<uploadForm, events, responses, saving, skew, navbar, papers, notifications, now, view, loading, editor, last>>

\* the toBlob callback up to the awaited update of the paper
handleSubmitUpdate(t, up) ==
    /\ call[t] /= Idle
    /\ call[t].pc = "update"
    /\ LET paper == call[t].paper
           r == UpdatePaper(t, paper.id,
                    [status |-> "checked", checked_sheet_url |-> call[t].url,
                     marks |-> parseInt(call[t].marks), grade |-> <<call[t].grade>>,
                     feedback |-> <<call[t].feedback>>, updated_at |-> DeviceClock(t)], up)
       IN  /\ papers' = [papers EXCEPT ![paper.id] = r.row]
           /\ last' = [op |-> "finalize", actor |-> t, id |-> paper.id,
                       pre |-> papers[paper.id], error |-> r.error, rows |-> r.rows]
           /\ call' = IF r.error THEN [call EXCEPT ![t] = Idle]
                      ELSE [call EXCEPT ![t].pc = "notify", ![t].pre = papers[paper.id],
                                        ![t].rows = r.rows]
    /\ UNCHANGED <<uploadForm, responses, saving, skew, navbar, notifications, now, view, loading, editor>>
    /\ events' = RaiseEvents

\* the toBlob callback whose message quotes the parsed marks instead of the
\* text of the marks field
handleSubmitNotify_Parsed(t, ok) ==
    /\ call[t] /= Idle
    /\ call[t].pc = "notify"
    /\ call[t].op = "finalize"
    /\ notifications' = InsertNotification(call[t].paper,
            <<"checked", call[t].paper.title, call[t].grade, parseInt(call[t].marks)>>, ok)
    /\ editor' = [editor EXCEPT ![t] = NoEditor]
    /\ loading' = IssueLoad(t)
    /\ call' = [call EXCEPT ![t] = Idle]
    /\ UNCHANGED <<uploadForm, events, responses, saving, skew, navbar, papers, now, view, last>>

\* the toBlob callback after the update: insert the notification, report
\* success, onClose()
handleSubmitNotify(t, ok) ==
    /\ call[t] /= Idle
    /\ call[t].pc = "notify"
    /\ call[t].op = "finalize"
    /\ notifications' = InsertNotification(call[t].paper,
            <<"checked", call[t].paper.title, call[t].grade, call[t].marks>>, ok)
    /\ editor' = [editor EXCEPT ![t] = NoEditor]
    /\ loading' = IssueLoad(t)
    /\ call' = [call EXCEPT ![t] = Idle]
    /\ UNCHANGED <<uploadForm, events, responses, saving, skew, navbar, papers, now, view, last>>

\* ------------------------------------------------------------------ Next
Next ==
    \/ \E l \in Learners, title \in Titles, q \in BOOLEAN,
          f \in {"none", "answer", "question", "insert"} : handleUpload(l, title, q, f)
    \/ \E t \in Tutors : papersChanged(t)
    \/ \E t \in Tutors, ok \in BOOLEAN : loadPapers(t, ok)
    \/ \E t \in Tutors, id \in PaperIds, up \in BOOLEAN : handleAccept(t, id, up)
    \/ \E t \in Tutors, ok \in BOOLEAN : handleAcceptNotify(t, ok)
    \/ \E t \in Tutors, id \in PaperIds, up \in BOOLEAN : handleReject(t, id, up)
    \/ \E t \in Tutors, ok \in BOOLEAN : handleRejectNotify(t, ok)
    \/ \E t \in Tutors, id \in PaperIds : openAnnotationEditor(t, id)
    \/ \E t \in Tutors : onClose(t)
    \/ \E t \in Tutors, m \in MarksInputs, g \in GradeInputs, fb \in FeedbackInputs :
          handleSubmit(t, m, g, fb)
    \/ \E t \in Tutors, ok \in BOOLEAN : handleSubmitUpload(t, ok)
    \/ \E t \in Tutors, up \in BOOLEAN : handleSubmitUpdate(t, up)
    \/ \E t \in Tutors, ok \in BOOLEAN : handleSubmitNotify(t, ok)

\* the handlers while the database clock stands still
Spec == Init /\ [][Next]_vars

\* A dashboard whose mounted editor has been moved to a paper it shows as
\* pending: the View Details button (setSelectedPaper) of a listed paper stays
\* focusable under the editor overlay, and showAnnotationEditor && selectedPaper
\* then renders the editor of another paper on it.
InitRetargeted ==
    /\ \E l \in Learners, title \in Titles :
          papers = [id \in PaperIds |->
                      [id |-> id, learner_id |-> l, tutor_id |-> NULL, title |-> title,
                       answer_sheet_url |-> <<l, "answer", 0>>, question_paper_url |-> NULL,
                       checked_sheet_url |-> NULL, status |-> "pending",
                       marks |-> NULL, grade |-> NULL, feedback |-> NULL,
                       created_at |-> 0, updated_at |-> 0]]
    /\ notifications = <<>>
    /\ now = 0
    /\ view = [t \in Tutors |-> papers]
    /\ loading = [t \in Tutors |-> 0]
    /\ \E r \in Tutors :
          editor = [t \in Tutors |->
                      IF t = r THEN PaperRef(papers[CHOOSE id \in PaperIds : TRUE])
                      ELSE NoEditor]
    /\ call = [t \in Tutors |-> Idle]
    /\ last = NoOp
    /\ skew = [u \in Users |-> 0]
    /\ navbar = [u \in Users |-> <<>>]
    /\ saving = [t \in Tutors |-> FALSE]
    /\ events = [t \in Tutors |-> 0]
    /\ responses = [t \in Tutors |-> {}]
    /\ uploadForm = [l \in Learners |-> NoUpload]

\* the handlers, from a fresh store or from a retargeted editor
SpecEditor == (Init \/ InitRetargeted) /\ [][Next]_vars

\* the handlers and the database clock
NextClock == Next \/ Tick

SpecClock == Init /\ [][NextClock]_vars

\* ------------------------------------------------------- device clocks
\* how far the clock of a tutor's device may be behind (-1) or ahead (1) of
\* the database clock
ClockSkews == {-1, 1}

\* one tutor's device clock is out of step with the database clock
InitSkewed ==
    /\ papers = [id \in PaperIds |-> NoPaper]
    /\ notifications = <<>>
    /\ now = 0
    /\ view = [t \in Tutors |-> [id \in PaperIds |-> NoPaper]]
    /\ loading = [t \in Tutors |-> 1]
    /\ editor = [t \in Tutors |-> NoEditor]
    /\ call = [t \in Tutors |-> Idle]
    /\ last = NoOp
    /\ \E t \in Tutors, d \in ClockSkews : skew = [u \in Users |-> IF u = t THEN d ELSE 0]
    /\ navbar = [u \in Users |-> <<>>]
    /\ saving = [t \in Tutors |-> FALSE]
    /\ events = [t \in Tutors |-> 0]
    /\ responses = [t \in Tutors |-> {}]
    /\ uploadForm = [l \in Learners |-> NoUpload]

\* the handlers when device clocks differ, the database clock standing still
SpecSkew == InitSkewed /\ [][Next]_vars

\* ------------------------------------------------------------- Navbar
\* the rows Navbar asks for at most
NavbarLimit == 10

\* "Users can view own notifications"
NotificationSelectUsing(uid, row) == row.user_id = uid

\* "Users can update own notifications", USING and WITH CHECK
NotificationUpdateUsing(uid, row) == row.user_id = uid
NotificationUpdateCheck(uid, row) == row.user_id = uid

\* the update with the policies of the notifications table left out
UpdateNotification_NoPolicy(uid, id, patch, up) ==
    IF up /\ id \in DOMAIN notifications
    THEN [notifications EXCEPT ![id] = ApplyPatch(notifications[id], patch)]
    ELSE notifications

\* supabase.from('notifications').update(patch).eq('id', id) sent by uid; the
\* id of a notification is its place in the table.  A row the policies hide is
\* not updated; up = FALSE is a request the store does not serve.
UpdateNotification(uid, id, patch, up) ==
    IF /\ up
       /\ id \in DOMAIN notifications
       /\ NotificationSelectUsing(uid, notifications[id])
       /\ NotificationUpdateUsing(uid, notifications[id])
       /\ NotificationUpdateCheck(uid, ApplyPatch(notifications[id], patch))
    THEN [notifications EXCEPT ![id] = ApplyPatch(notifications[id], patch)]
    ELSE notifications

RECURSIVE NewestFirst(_, _, _)
\* the rows of table that uid may see, with their ids, from place i down
NewestFirst(uid, table, i) ==
    IF i = 0 THEN <<>>
    ELSE (IF NotificationSelectUsing(uid, table[i]) /\ table[i].user_id = uid
          THEN <<[id |-> i, user_id |-> table[i].user_id, paper_id |-> table[i].paper_id,
                  message |-> table[i].message, is_read |-> table[i].is_read,
                  created_at |-> table[i].created_at]>>
          ELSE <<>>) \o NewestFirst(uid, table, i - 1)

\* .select('*').eq('user_id', profile.id).order('created_at', desc).limit(10)
NotificationQuery(uid, table) ==
    LET all == NewestFirst(uid, table, Len(table))
    IN  IF Len(all) > NavbarLimit THEN SubSeq(all, 1, NavbarLimit) ELSE all

\* the ids of the notifications u's Navbar lists
Listed(u) == {navbar[u][k].id : k \in DOMAIN navbar[u]}

\* the postgres_changes subscription (INSERT, user_id = u) calls
\* loadNotifications: if (data) setNotifications(data)
notificationInserted(u, ok) ==
    /\ \E i \in DOMAIN notifications : notifications[i].user_id = u /\ i \notin Listed(u)
    /\ navbar' = IF ok THEN [navbar EXCEPT ![u] = NotificationQuery(u, notifications)]
                 ELSE navbar
    /\ UNCHANGED <<uploadForm, papers, notifications, now, view, loading, editor, call, last, skew, saving, events, responses>>

\* markAsRead(notificationId) on a notification the Navbar lists: the awaited
\* update, whose result is not looked at, then loadNotifications()
markAsRead(u, id, up, ok) ==
    /\ id \in Listed(u)
    /\ notifications' = UpdateNotification(u, id, [is_read |-> TRUE], up)
    /\ navbar' = IF ok THEN [navbar EXCEPT ![u] = NotificationQuery(u, notifications')]
                 ELSE navbar
    /\ UNCHANGED <<uploadForm, papers, now, view, loading, editor, call, last, skew, saving, events, responses>>

\* the handlers and the Navbar
NextNavbar ==
    \/ Next
    \/ \E u \in Users, ok \in BOOLEAN : notificationInserted(u, ok)
    \/ \E u \in Users, id \in 1..MaxNotifications, up \in BOOLEAN, ok \in BOOLEAN :
          markAsRead(u, id, up, ok)

SpecNavbar == Init /\ [][NextNavbar]_vars

\* =================================================================== claims
\* the papers table sent its answer to an update of the given kind
Sent(op) == last.op = op /\ last.pre /= NoPaper

\* tutor a's handleAccept changed a pending, unassigned row and has not
\* finished yet
ClaimInFlight(a) ==
    /\ call[a] /= Idle
    /\ call[a].op = "accept"
    /\ call[a].pc = "notify"
    /\ call[a].rows = 1
    /\ call[a].pre.status = "pending"

\* C1: when two distinct reviewers claim the same submitted submission
\* concurrently, the second update to reach the store reports a failure to its
\* caller and reviewer_id stays the identity of the first.
C1_ExactlyOneClaimSucceeds ==
    \A a \in Tutors :
        ( /\ ClaimInFlight(a)
          /\ Sent("accept")
          /\ last.actor /= a
          /\ last.id = call[a].paper.id
          /\ last.pre.status = "accepted"
          /\ last.pre.tutor_id = <<a>> )
        => (last.error /\ papers[last.id].tutor_id = <<a>>)

\* C2: a claim re-issued by the reviewer the submission is already assigned to
\* reports a failure and leaves state, reviewer_id, score, grade and checked
\* locator as they were.
C2_RetriedClaimRejected ==
    (Sent("accept") /\ last.pre.tutor_id = <<last.actor>>)
    => ( /\ last.error
         /\ papers[last.id].status = last.pre.status
         /\ papers[last.id].tutor_id = last.pre.tutor_id
         /\ papers[last.id].marks = last.pre.marks
         /\ papers[last.id].grade = last.pre.grade
         /\ papers[last.id].checked_sheet_url = last.pre.checked_sheet_url )

\* C3: a claim by T2 on a submission that T1 /= T2 has claimed reports a
\* failure and leaves state and reviewer_id unchanged.
C3_LateClaimRejected ==
    ( /\ Sent("accept")
      /\ last.pre.tutor_id /= NULL
      /\ last.pre.tutor_id /= <<last.actor>> )
    => ( /\ last.error
         /\ papers[last.id].status = last.pre.status
         /\ papers[last.id].tutor_id = last.pre.tutor_id )

\* C4: a submission is checked iff marks, grade and checked_sheet_url are all
\* set, and in every other state all three are null.
C4_ResultIffFinalized ==
    \A id \in PaperIds :
        papers[id] /= NoPaper =>
            LET row == papers[id] IN
            IF row.status = "checked"
            THEN row.marks /= NULL /\ row.grade /= NULL /\ row.checked_sheet_url /= NULL
            ELSE row.marks = NULL /\ row.grade = NULL /\ row.checked_sheet_url = NULL

\* C5: tutor_id is set iff the submission is accepted or checked.
C5_ReviewerIffAssigned ==
    \A id \in PaperIds :
        papers[id] /= NoPaper =>
            (papers[id].tutor_id /= NULL <=> papers[id].status \in {"accepted", "checked"})

\* C6: every committed change of status is pending -> accepted,
\* pending -> rejected or accepted -> checked.
C6_OnlyThreeTransitions ==
    [][\A id \in PaperIds :
          (papers[id] /= NoPaper /\ papers'[id].status /= papers[id].status)
          => <<papers[id].status, papers'[id].status>> \in
                {<<"pending", "accepted">>, <<"pending", "rejected">>,
                 <<"accepted", "checked">>}]_vars

\* C7: once tutor_id is set, no later step changes it to another reviewer or
\* clears it.
C7_ReviewerNeverChanges ==
    [][\A id \in PaperIds :
          (papers[id] /= NoPaper /\ papers[id].tutor_id /= NULL)
          => (papers'[id] /= NoPaper /\ papers'[id].tutor_id = papers[id].tutor_id)]_vars

\* C7 witness: the store served a claim, decline or finalize sent by a tutor
\* other than the one the submission is assigned to.
C7_Witness ==
    /\ last.op \in {"accept", "reject", "finalize"}
    /\ last.pre /= NoPaper
    /\ last.pre.tutor_id /= NULL
    /\ last.pre.tutor_id /= <<last.actor>>
    /\ ~last.error
    /\ papers[last.id].tutor_id = last.pre.tutor_id

\* C8: a finalize sent by an actor other than the assigned reviewer reports a
\* failure and leaves the submission unchanged.
C8_ForeignFinalizeForbidden ==
    (Sent("finalize") /\ last.pre.tutor_id /= <<last.actor>>)
    => (last.error /\ papers[last.id] = last.pre)

\* C9: a claim on a submission stored as rejected or checked reports a failure
\* and leaves the stored status unchanged.
C9_ClaimOnTerminalRejected ==
    (Sent("accept") /\ last.pre.status \in {"rejected", "checked"})
    => (last.error /\ papers[last.id].status = last.pre.status)

\* C10: a decline on a submission stored as accepted reports a failure, leaves
\* the status unchanged and goes on to no notification insert.
C10_DeclineOnAssignedRejected ==
    (Sent("reject") /\ last.pre.status = "accepted")
    => ( /\ last.error
         /\ papers[last.id].status = "accepted"
         /\ ~(call[last.actor] /= Idle /\ call[last.actor].op = "reject") )

\* C11: a finalize that reaches a submission stored as checked or rejected
\* reports a failure, leaves marks, grade, feedback, checked_sheet_url and
\* updated_at as they were and goes on to no notification insert.
C11_FinalizeOnTerminalRejected ==
    (Sent("finalize") /\ last.pre.status \in {"checked", "rejected"})
    => ( /\ last.error
         /\ papers[last.id].marks = last.pre.marks
         /\ papers[last.id].grade = last.pre.grade
         /\ papers[last.id].feedback = last.pre.feedback
         /\ papers[last.id].checked_sheet_url = last.pre.checked_sheet_url
         /\ papers[last.id].updated_at = last.pre.updated_at
         /\ ~(call[last.actor] /= Idle /\ call[last.actor].op = "finalize"
              /\ call[last.actor].pc = "notify") )

\* the kind of notification a handler of the given kind writes
MessageKind(op) ==
    CASE op = "accept" -> "accepted" [] op = "reject" -> "rejected"
      [] op = "finalize" -> "checked" [] OTHER -> "none"

\* tutor t's handler is between its update and its notification insert
Notifying(t) == call[t] /= Idle /\ call[t].pc = "notify"

\* C12 as stated: once the handler of a committed claim, decline or finalize
\* has finished, the notifications table holds its notification.
C12_ExactlyOneNotification ==
    ( /\ last.op \in {"accept", "reject", "finalize"}
      /\ last.rows = 1
      /\ call[last.actor] = Idle )
    => \E i \in DOMAIN notifications :
          /\ notifications[i].paper_id = last.id
          /\ notifications[i].message[1] = MessageKind(last.op)

\* C12, amended: every step that commits a change to a stored submission puts
\* its handler before exactly one notification insert; a step adds a
\* notification only as that insert of a claim, decline or finalize handler,
\* it adds one row, unread and addressed to the submission's learner; no
\* other step (handleUpload, loadPapers, the Navbar) changes the number of
\* notifications.
C12_OneInsertPerTransition ==
    [][ /\ \A id \in PaperIds :
              (papers[id] /= NoPaper /\ papers'[id] /= papers[id])
              => \E t \in Tutors :
                    /\ ~Notifying(t)
                    /\ Notifying(t)'
                    /\ call'[t].paper.id = id
                    /\ call'[t].rows = 1
                    /\ notifications' = notifications
        /\ Len(notifications') /= Len(notifications)
              => \E t \in Tutors :
                    /\ Notifying(t)
                    /\ call'[t] = Idle
                    /\ Len(notifications') = Len(notifications) + 1
                    /\ SubSeq(notifications', 1, Len(notifications)) = notifications
                    /\ LET n == notifications'[Len(notifications')]
                       IN  /\ n.paper_id = call[t].paper.id
                           /\ n.user_id = papers[n.paper_id].learner_id
                           /\ n.message[1] = MessageKind(call[t].op)
                           /\ ~n.is_read ]_vars

\* C12 witness: a claim was committed, its handler has finished and its
\* notification is in the table, addressed to the learner.
C12_Witness ==
    /\ last.op = "accept"
    /\ last.rows = 1
    /\ call[last.actor] = Idle
    /\ \E i \in DOMAIN notifications :
          /\ notifications[i].paper_id = last.id
          /\ notifications[i].user_id = papers[last.id].learner_id
          /\ notifications[i].message[1] = "accepted"

\* C13: a notification is inserted only by a handler whose update changed a
\* stored row; an update the store answered with an error or that matched no
\* row is followed by no notification insert.
C13_NoNotificationWithoutChange ==
    [][Len(notifications') > Len(notifications)
       => \E t \in Tutors :
             /\ Notifying(t)
             /\ call'[t] = Idle
             /\ call[t].rows = 1]_vars

\* C14: when the update of a claim, decline or finalize has changed the row
\* and the notification insert that follows adds nothing, the handler still
\* ends on its success path (no error is recorded, loadPapers() is issued, the
\* editor of a finalize is closed) and the papers table is left as committed.
C14_InsertFailureSwallowed ==
    [][\A t \in Tutors :
          ( /\ Notifying(t)
            /\ call[t].rows = 1
            /\ call'[t] = Idle
            /\ Len(notifications') = Len(notifications) )
          => ( /\ papers' = papers
               /\ last' = last
               /\ loading'[t] = 1
               /\ (call[t].op = "finalize" => editor'[t] = NoEditor) )]_vars

\* C14 witness: a claim was committed, its notification insert failed, the
\* handler has finished without recording an error and the row is still
\* accepted by the caller.
C14_Witness ==
    /\ last.op = "accept"
    /\ last.rows = 1
    /\ ~last.error
    /\ call[last.actor] = Idle
    /\ loading[last.actor] = 1
    /\ notifications = <<>>
    /\ papers[last.id].status = "accepted"
    /\ papers[last.id].tutor_id = <<last.actor>>

\* the text is a non-negative integer numeral
IsIntegerText(s) == s /= <<>> /\ \A i \in DOMAIN s : s[i] \in Digits

\* the values of the grade select other than "Select grade"
GradeLabels == {"A+", "A", "B+", "B", "C+", "C", "D", "F"}

\* C15: a finalize whose marks text is missing or is not an integer numeral, or
\* whose grade is missing or not one of the grade labels, is refused before
\* the upload: no handleSubmit call with such input gets past validation.
C15_InvalidResultRefused ==
    \A t \in Tutors :
        (call[t] /= Idle /\ call[t].op = "finalize")
        => (IsIntegerText(call[t].marks) /\ call[t].grade \in GradeLabels)

\* C16: every row loadPapers has put into a tutor's list was pending or
\* assigned to that tutor when it was read, and the select policy lets a tutor
\* read a stored paper only if it is pending or assigned to that tutor.
C16_ReviewerReadsPendingOrOwn ==
    \A t \in Tutors, id \in PaperIds :
        /\ view[t][id] /= NoPaper
              => (view[t][id].status = "pending" \/ view[t][id].tutor_id = <<t>>)
        /\ (papers[id] /= NoPaper /\ SelectUsing(t, papers[id]))
              => (papers[id].status = "pending" \/ papers[id].tutor_id = <<t>>)

\* updates of the state fields a learner's session could send
StatePatches ==
    { [status |-> "checked"], [tutor_id |-> NULL], [marks |-> <<100>>],
      [grade |-> <<"A+">>], [feedback |-> <<"">>],
      [checked_sheet_url |-> <<<<"L1", "checked">>>>] }

\* C17: an update of status, tutor_id, marks, grade, feedback or
\* checked_sheet_url sent by a learner changes no stored paper, the learner's
\* own included.
C17_RequesterCannotMutate ==
    \A l \in Learners, id \in PaperIds, patch \in StatePatches :
        papers[id] /= NoPaper => UpdatePaper(l, id, patch, TRUE).rows = 0

\* a notification without its read flag
Unflagged(n) == [user_id |-> n.user_id, paper_id |-> n.paper_id,
                 message |-> n.message, created_at |-> n.created_at]

\* C18: a step changes the read flag of a stored notification only as a
\* markAsRead of the user the notification is addressed to; the update of
\* markAsRead sent by any other user changes no notification; and no step
\* changes the user_id, paper_id, message or created_at of a stored
\* notification.
C18_ReadFlagOwnedByTarget ==
    [][ /\ \A i \in DOMAIN notifications :
              /\ i \in DOMAIN notifications'
              /\ Unflagged(notifications'[i]) = Unflagged(notifications[i])
              /\ notifications'[i].is_read /= notifications[i].is_read
                    => /\ notifications'[i].is_read
                       /\ i \in Listed(notifications[i].user_id)
                       /\ notifications' =
                             UpdateNotification(notifications[i].user_id, i,
                                                [is_read |-> TRUE], TRUE)
        /\ \A u \in Users, i \in DOMAIN notifications :
              u /= notifications[i].user_id
              => UpdateNotification(u, i, [is_read |-> TRUE], TRUE) = notifications ]_vars

\* C18 witness: the learner has marked the first of two notifications as read
\* and the second is still unread.
C18_Witness ==
    /\ Len(notifications) = 2
    /\ notifications[1].is_read
    /\ ~notifications[2].is_read
    /\ 1 \in Listed(notifications[1].user_id)

\* the columns of a paper that handleUpload writes and no transition names
Origin(row) == [learner_id |-> row.learner_id, title |-> row.title,
                answer_sheet_url |-> row.answer_sheet_url,
                question_paper_url |-> row.question_paper_url,
                created_at |-> row.created_at]

\* C19: no step changes the learner_id, title, answer_sheet_url,
\* question_paper_url or created_at of a stored paper; claim, decline and
\* finalize are the steps that write to stored papers.
C19_OriginUnchanged ==
    [][\A id \in PaperIds :
          papers[id] /= NoPaper
          => (papers'[id] /= NoPaper /\ Origin(papers'[id]) = Origin(papers[id]))]_vars

\* C19 witness: a finalize was committed on a paper uploaded with a question
\* paper, and the row still has the learner, title and files it had.
C19_Witness ==
    /\ last.op = "finalize"
    /\ last.rows = 1
    /\ papers[last.id].status = "checked"
    /\ papers[last.id].question_paper_url /= NULL
    /\ Origin(papers[last.id]) = Origin(last.pre)

\* C20: every stored paper has updated_at >= created_at, whichever device
\* stamped the last update.
C20_ModifiedNotBeforeCreated ==
    \A id \in PaperIds :
        papers[id] /= NoPaper => papers[id].updated_at >= papers[id].created_at

\* C21: the step that creates a paper stores it as pending, owned by the
\* learner whose folder holds the uploaded answer sheet, with the answer sheet
\* set and tutor_id, marks, grade, feedback and checked_sheet_url null.
C21_CreatedAsSubmitted ==
    [][\A id \in PaperIds :
          (papers[id] = NoPaper /\ papers'[id] /= NoPaper)
          => LET row == papers'[id] IN
             /\ row.status = "pending"
             /\ row.learner_id \in Learners
             /\ InsertCheck(row.learner_id, row)
             /\ row.answer_sheet_url /= NULL
             /\ row.answer_sheet_url[1] = row.learner_id
             /\ row.tutor_id = NULL
             /\ row.marks = NULL
             /\ row.grade = NULL
             /\ row.feedback = NULL
             /\ row.checked_sheet_url = NULL]_vars

\* C21 witness: a paper uploaded with a question paper is stored and no
\* handler has sent an update yet.
C21_Witness ==
    \E id \in PaperIds :
        /\ papers[id] /= NoPaper
        /\ papers[id].status = "pending"
        /\ papers[id].question_paper_url /= NULL
        /\ last = NoOp

\* the condition under which the dashboard offers the operation, on a row
TransitionGuard(op, row, t) ==
    CASE op = "accept"   -> row.status = "pending"
      [] op = "reject"   -> row.status = "pending"
      [] op = "finalize" -> row.status = "accepted" /\ row.tutor_id = <<t>>
      [] OTHER           -> FALSE

\* C22: an update of a claim, decline or finalize changes a stored paper only
\* if the row as stored at the moment of the write satisfies the guard of the
\* operation; the guard is not taken from the copy in the caller's list.
C22_GuardOnStoredRow ==
    (last.op \in {"accept", "reject", "finalize"} /\ last.rows = 1)
    => TransitionGuard(last.op, last.pre, last.actor)

\* C23: a committed claim leaves tutor_id equal to the tutor who sent it, and
\* an update by which a tutor would write another user's id into tutor_id
\* changes no stored paper.
C23_ClaimAssignsCaller ==
    /\ (last.op = "accept" /\ last.rows = 1)
          => papers[last.id].tutor_id = <<last.actor>>
    /\ \A t \in Tutors, o \in Users, id \in PaperIds :
          (o /= t /\ papers[id] /= NoPaper)
          => /\ UpdatePaper(t, id, [tutor_id |-> <<o>>, status |-> "accepted"], TRUE).rows = 0
             /\ UpdatePaper(t, id, [tutor_id |-> <<o>>], TRUE).rows = 0

\* C23 witness: T2's claim on a pending, unassigned paper was committed and
\* the paper is assigned to T2.
C23_Witness ==
    /\ last.op = "accept"
    /\ last.actor = "T2"
    /\ last.rows = 1
    /\ last.pre.status = "pending"
    /\ last.pre.tutor_id = NULL
    /\ papers[last.id].tutor_id = <<"T2">>

\* C24: the notification a claim, decline or finalize handler inserts is
\* addressed to the learner_id stored on the paper the handler acted on, names
\* that paper and its title, and is unread; the message of a finalize quotes
\* the grade and the marks text given to that handleSubmit.
C24_NotificationContent ==
    [][\A t \in Tutors :
          (Notifying(t) /\ call'[t] = Idle /\ Len(notifications') > Len(notifications))
          => LET n == notifications'[Len(notifications')]
                 paper == papers[call[t].paper.id]
             IN  /\ paper /= NoPaper
                 /\ n.paper_id = paper.id
                 /\ n.user_id = paper.learner_id
                 /\ ~n.is_read
                 /\ n.message[1] = MessageKind(call[t].op)
                 /\ n.message[2] = paper.title
                 /\ call[t].op = "finalize"
                       => (n.message[3] = call[t].grade /\ n.message[4] = call[t].marks)]_vars

\* C24 witness: the notification of a finalize with grade A and marks 7 is
\* in the table, unread and addressed to the learner of the checked paper.
C24_Witness ==
    \E i \in DOMAIN notifications :
        /\ notifications[i].message[1] = "checked"
        /\ notifications[i].message[3] = "A"
        /\ notifications[i].message[4] = <<"7">>
        /\ ~notifications[i].is_read
        /\ papers[notifications[i].paper_id].status = "checked"
        /\ papers[notifications[i].paper_id].marks = <<7>>
        /\ notifications[i].user_id = papers[notifications[i].paper_id].learner_id

\* tutor t's handleSubmit is in flight
Finalizing(t) == call[t] /= Idle /\ call[t].op = "finalize"

\* C25: a finalize starts with the upload of the checked sheet, sends the
\* update only after the upload succeeded and inserts the notification only
\* after the update returned no error; a failed upload ends it with the paper
\* and the notifications untouched, and an update that returns an error ends
\* it with no notification insert.
C25_FinalizeOrder ==
    [][\A t \in Tutors :
          /\ (~Finalizing(t) /\ Finalizing(t)')
                => ( /\ call'[t].pc = "upload"
                     /\ papers' = papers
                     /\ notifications' = notifications )
          /\ (Finalizing(t) /\ call'[t] /= call[t])
                => CASE call[t].pc = "upload" ->
                          /\ papers' = papers
                          /\ notifications' = notifications
                          /\ \/ call'[t] = Idle
                             \/ (call'[t].pc = "update" /\ call'[t].url /= NULL)
                     [] call[t].pc = "update" ->
                          /\ notifications' = notifications
                          /\ last'.op = "finalize"
                          /\ IF last'.error
                             THEN call'[t] = Idle /\ papers' = papers
                             ELSE /\ call'[t].pc = "notify"
                                  /\ last'.rows = 1
                                        => papers'[last'.id].checked_sheet_url = call[t].url
                     [] call[t].pc = "notify" ->
                          /\ papers' = papers
                          /\ call'[t] = Idle
                     [] OTHER -> FALSE]_vars

\* C25 witness: a finalize has uploaded the checked sheet and committed its
\* update, the paper holds the uploaded sheet, and the notification has not
\* been inserted yet.
C25_Witness ==
    \E t \in Tutors :
        /\ Finalizing(t)
        /\ call[t].pc = "notify"
        /\ call[t].rows = 1
        /\ call[t].url /= NULL
        /\ papers[call[t].paper.id].checked_sheet_url = call[t].url
        /\ \A i \in DOMAIN notifications : notifications[i].message[1] /= "checked"

\* C26: while the upload, update or notification insert of a handleSubmit is
\* outstanding, the saving state of that editor is true, so that the disabled
\* submit button keeps a second handleSubmit from starting.
C26_SavingWhileInFlight ==
    \A t \in Tutors : Finalizing(t) => saving[t]

\* ------------------------------------------- loadPapers, request by request
\* the largest number of answers on their way back to one dashboard
MaxInFlight == 2

\* useEffect: the postgres_changes callback of the papers channel runs
\* loadPapers()
papersEvent(t) ==
    /\ events[t] = 1
    /\ events' = [events EXCEPT ![t] = 0]
    /\ loading' = IssueLoad(t)
    /\ UNCHANGED <<uploadForm, responses, saving, skew, navbar, papers, notifications, now, view, editor, call, last>>

\* loadPapers: the select of a request reaches the table and is answered from
\* the rows of that moment
loadPapersSelect(t) ==
    /\ loading[t] > 0
    /\ Cardinality(responses[t]) < MaxInFlight
    /\ loading' = [loading EXCEPT ![t] = 0]
    /\ responses' = [responses EXCEPT ![t] = @ \cup {TutorQuery(t)}]
    /\ UNCHANGED <<uploadForm, events, saving, skew, navbar, papers, notifications, now, view, editor, call, last>>

\* loadPapers: an answer arrives, whichever request it belongs to:
\* if (data) setPapers(data)
setPapers(t) ==
    /\ \E data \in responses[t] :
          /\ view' = [view EXCEPT ![t] = data]
          /\ responses' = [responses EXCEPT ![t] = @ \ {data}]
    /\ UNCHANGED <<uploadForm, events, saving, skew, navbar, papers, notifications, now, loading, editor, call, last>>

\* submissions arriving and being claimed, with every loadPapers of a dashboard
\* followed from its request to its answer
NextLoads ==
    \/ \E l \in Learners, title \in Titles, q \in BOOLEAN,
          f \in {"none", "answer", "question", "insert"} : handleUpload(l, title, q, f)
    \/ \E t \in Tutors : papersEvent(t)
    \/ \E t \in Tutors : loadPapersSelect(t)
    \/ \E t \in Tutors : setPapers(t)
    \/ \E t \in Tutors, id \in PaperIds, up \in BOOLEAN : handleAccept(t, id, up)
    \/ \E t \in Tutors, ok \in BOOLEAN : handleAcceptNotify(t, ok)

SpecLoads == Init /\ [][NextLoads]_vars

\* every loadPapers of t has returned, no change event is on its way to t and
\* no handler is between two of its requests
Settled(t) ==
    /\ loading[t] = 0
    /\ responses[t] = {}
    /\ events[t] = 0
    /\ \A u \in Tutors : call[u] = Idle

\* C27: once every loadPapers of a dashboard has returned and no change is
\* outstanding, the list the dashboard shows is the result of its query on the
\* stored rows, in whatever order the answers arrived.
C27_ListConverges ==
    \A t \in Tutors : Settled(t) => view[t] = TutorQuery(t)

\* ------------------------------------------ LearnerDashboard, step by step
\* the "Upload Paper" button: setShowUploadModal(true)
openUploadModal(l) ==
    /\ ~uploadForm[l].show
    /\ uploadForm' = [uploadForm EXCEPT ![l].show = TRUE]
    /\ UNCHANGED <<papers, notifications, now, view, loading, editor, call, last, skew,
                   navbar, saving, events, responses>>

\* the Cancel button: setShowUploadModal(false); the form state is kept
closeUploadModal(l) ==
    /\ uploadForm[l].show
    /\ uploadForm' = [uploadForm EXCEPT ![l].show = FALSE]
    /\ UNCHANGED <<papers, notifications, now, view, loading, editor, call, last, skew,
                   navbar, saving, events, responses>>

\* onChange of the three inputs of the form; they stay enabled while a
\* handleUpload is running
setTitle(l, title) ==
    /\ uploadForm[l].show
    /\ uploadForm[l].title /= title
    /\ uploadForm' = [uploadForm EXCEPT ![l].title = title]
    /\ UNCHANGED <<papers, notifications, now, view, loading, editor, call, last, skew,
                   navbar, saving, events, responses>>

setAnswerSheet(l, file) ==
    /\ uploadForm[l].show
    /\ uploadForm[l].answerSheet /= file
    /\ uploadForm' = [uploadForm EXCEPT ![l].answerSheet = file]
    /\ UNCHANGED <<papers, notifications, now, view, loading, editor, call, last, skew,
                   navbar, saving, events, responses>>

setQuestionPaper(l, file) ==
    /\ uploadForm[l].show
    /\ uploadForm[l].questionPaper /= file
    /\ uploadForm' = [uploadForm EXCEPT ![l].questionPaper = file]
    /\ UNCHANGED <<papers, notifications, now, view, loading, editor, call, last, skew,
                   navbar, saving, events, responses>>

\* catch and finally of handleUpload: alert('Failed to upload paper'),
\* setUploading(false); the form state is not touched
Caught_FormCleared(u) ==
    [u EXCEPT !.alert = TRUE, !.uploading = FALSE, !.pc = "idle",
              !.title = "", !.answerSheet = FALSE, !.questionPaper = FALSE,
              !.ptitle = "", !.pquestion = FALSE, !.timestamp = 0]
Caught(u) ==
    [u EXCEPT !.alert = TRUE, !.uploading = FALSE, !.pc = "idle",
              !.ptitle = "", !.pquestion = FALSE, !.timestamp = 0]

\* handleUpload, up to the first await: the form is submitted (title and
\* answer sheet are required, the submit button is disabled while uploading),
\* if (!answerSheet || !profile) return; setUploading(true); Date.now()
handleUploadSubmit(l) ==
    /\ uploadForm[l].show
    /\ uploadForm[l].title /= ""
    /\ uploadForm[l].answerSheet
    /\ ~uploadForm[l].uploading
    /\ uploadForm' = [uploadForm EXCEPT ![l].uploading = TRUE, ![l].alert = FALSE,
                                        ![l].pc = "answer",
                                        ![l].ptitle = uploadForm[l].title,
                                        ![l].pquestion = uploadForm[l].questionPaper,
                                        ![l].timestamp = DeviceClock(l)]
    /\ UNCHANGED <<papers, notifications, now, view, loading, editor, call, last, skew,
                   navbar, saving, events, responses>>

\* await uploadFile(answerSheet, ...): if (error) throw error
handleUploadAnswer(l, ok) ==
    /\ uploadForm[l].pc = "answer"
    /\ LET u == uploadForm[l]
       IN  uploadForm' = [uploadForm EXCEPT ![l] =
                             IF ok THEN [u EXCEPT !.pc = IF u.pquestion THEN "question"
                                                                        ELSE "insert"]
                                   ELSE Caught(u)]
    /\ UNCHANGED <<papers, notifications, now, view, loading, editor, call, last, skew,
                   navbar, saving, events, responses>>

\* if (questionPaper) await uploadFile(questionPaper, ...)
handleUploadQuestion(l, ok) ==
    /\ uploadForm[l].pc = "question"
    /\ LET u == uploadForm[l]
       IN  uploadForm' = [uploadForm EXCEPT ![l] =
                             IF ok THEN [u EXCEPT !.pc = "insert"] ELSE Caught(u)]
    /\ UNCHANGED <<papers, notifications, now, view, loading, editor, call, last, skew,
                   navbar, saving, events, responses>>

\* await supabase.from('papers').insert(...): if (error) throw error; then
\* setShowUploadModal(false), the form is emptied, loadPapers(); finally
\* setUploading(false)
handleUploadInsert(l, ok) ==
    /\ uploadForm[l].pc = "insert"
    /\ ok => FreeIds /= {}
    /\ LET u   == uploadForm[l]
           id  == CHOOSE i \in FreeIds : TRUE
           row == [id |-> id, learner_id |-> l, tutor_id |-> NULL, title |-> u.ptitle,
                   answer_sheet_url |-> <<l, "answer", u.timestamp>>,
                   question_paper_url |-> IF u.pquestion
                                             THEN << <<l, "question", u.timestamp>> >>
                                             ELSE NULL,
                   checked_sheet_url |-> NULL, status |-> "pending",
                   marks |-> NULL, grade |-> NULL, feedback |-> NULL,
                   created_at |-> now, updated_at |-> now]
       IN  IF ok /\ InsertCheck(l, row)
           THEN /\ papers' = [papers EXCEPT ![id] = row]
                /\ uploadForm' = [uploadForm EXCEPT ![l] = NoUpload]
           ELSE /\ papers' = papers
                /\ uploadForm' = [uploadForm EXCEPT ![l] = Caught(u)]
    /\ events' = RaiseEvents
    /\ UNCHANGED <<notifications, now, view, loading, editor, call, last, skew,
                   navbar, saving, responses>>

\* the requests of a handleUpload
UploadRequests ==
    \E l \in Learners, ok \in BOOLEAN :
        \/ handleUploadAnswer(l, ok)
        \/ handleUploadQuestion(l, ok)
        \/ handleUploadInsert(l, ok)

NextUpload ==
    \/ \E l \in Learners : openUploadModal(l)
    \/ \E l \in Learners : closeUploadModal(l)
    \/ \E l \in Learners, title \in Titles \cup {""} : setTitle(l, title)
    \/ \E l \in Learners, file \in BOOLEAN : setAnswerSheet(l, file)
    \/ \E l \in Learners, file \in BOOLEAN : setQuestionPaper(l, file)
    \/ \E l \in Learners : handleUploadSubmit(l)
    \/ \E l \in Learners, ok \in BOOLEAN : handleUploadAnswer(l, ok)
    \/ \E l \in Learners, ok \in BOOLEAN : handleUploadQuestion(l, ok)
    \/ \E l \in Learners, ok \in BOOLEAN : handleUploadInsert(l, ok)

\* every awaited request of a handleUpload is answered
SpecUpload == Init /\ [][NextUpload]_vars /\ WF_vars(UploadRequests)

\* the entered form data of an upload modal
FormData(u) == <<u.title, u.answerSheet, u.questionPaper>>

\* a step of l's dashboard that ends a handleUpload
UploadEnds(l) == uploadForm[l].pc /= "idle" /\ uploadForm'[l].pc = "idle"

\* the row a handleUpload of l inserts from what it captured
IsSubmitted(l, u, row) ==
    /\ row /= NoPaper
    /\ row.learner_id = l
    /\ row.title = u.ptitle
    /\ row.status = "pending"
    /\ row.answer_sheet_url = <<l, "answer", u.timestamp>>
    /\ (row.question_paper_url /= NULL) = u.pquestion

C28_Step ==
    \A l \in Learners :
        LET u == uploadForm[l]
            v == uploadForm'[l]
        IN  /\ v.uploading = (v.pc /= "idle")
            /\ ~UploadEnds(l) => papers' = papers
            /\ (UploadEnds(l) /\ v.alert) =>
                   /\ papers' = papers
                   /\ FormData(v) = FormData(u)
            /\ (UploadEnds(l) /\ ~v.alert) =>
                   /\ \E id \in PaperIds :
                          /\ papers[id] = NoPaper
                          /\ IsSubmitted(l, u, papers'[id])
                          /\ \A o \in PaperIds \ {id} : papers'[o] = papers[o]
                   /\ FormData(v) = <<"", FALSE, FALSE>>

\* C28: a handleUpload whose answer-sheet upload, question-paper upload or
\* insert fails leaves the papers table as it was and keeps the entered form
\* data; only a handleUpload that ends without the failure alert adds a row,
\* exactly one; the uploading flag is true exactly while a handleUpload is
\* running, and once set it is reset to false.
C28_AllOrNothing ==
    /\ [][C28_Step]_vars
    /\ \A l \in Learners : uploadForm[l].uploading ~> ~uploadForm[l].uploading

\* a handleUpload has failed: the alert is up, the flag is reset, the form
\* still holds the title and the answer sheet, and the table has no row
C28_Witness ==
    \E l \in Learners :
        /\ uploadForm[l].alert
        /\ uploadForm[l].pc = "idle"
        /\ ~uploadForm[l].uploading
        /\ uploadForm[l].title /= ""
        /\ uploadForm[l].answerSheet
        /\ \A id \in PaperIds : papers[id] = NoPaper

====
